---- MODULE Spec2Model ----
(***************************************************************************)
(* State machine of the HasText room hook (src/src/hooks/useRoom.ts), its  *)
(* page (src/src/pages/Index.tsx) and the backend tables it talks to       *)
(* (src/unnamed/part_000).                                                 *)
(*                                                                         *)
(* useRoom.ts holds two variants of the hook:                              *)
(*   "typing" : lines 32-272  (delete, typing set, single insert attempt)  *)
(*   "retry"  : lines 304-621 (code retry, upsert, stable user id)         *)
(* The variant is fixed at Init; every handler is modelled per variant.    *)
(*                                                                         *)
(* Each handler is an async function: it runs atomically up to its next    *)
(* backend request.  A pending call is a record of tasks[c]; one action    *)
(* per backend request executes the request at the backend and runs the    *)
(* handler's continuation up to the next request.                          *)
(***************************************************************************)
EXTENDS Naturals, Sequences, FiniteSets, TLC

\* ---------------------------------------------------------------- bounds
MaxMembers == 3   \* rows the room_members table may hold
MaxMsgs == 2      \* message ids the backend may issue
MaxInbox == 1     \* undelivered change notifications per client
MaxCalls == 4     \* handler calls and reloads in one run
MaxUpsets == 1    \* requests that fail for a transient reason or are answered late
MaxPending == 2   \* create / join calls of one browser pending at once
TimeStep == 500   \* time passes in steps of TimeStep milliseconds
MaxTime == 3000   \* the time up to which the typing effect is followed

\* ------------------------------------------------------------- constants
MaxAttempts == 5  \* useRoom.ts:372  while (attempts < 5 && !room)
ClearDelay == 1500  \* useRoom.ts:689  setTimeout(() => onUpdateTyping(false), 1500)

Clients == {"c1"}
Variants == {"typing", "retry"}
Codes == {"AAA111", "BBB222"}
CodeInputs == {"aaa111", "BBB222"}
DisplayNames == {"Alice", "Bob"}
RoomNames == {"Test"}

\* Message texts are sequences of characters, so that trim() has work to do.
Texts == { <<" ">>, <<" ", "y", "o", " ">> }

NoRoom == [id |-> 0, code |-> "", name |-> ""]
NoUser == [id |-> 0, displayName |-> ""]

PeerTexts == { <<"h", "i">> }

\* ------------------------------------------------------- pure functions
\* A code passed on as it was typed.
CodeAsTyped(s) == s

\* String.prototype.toUpperCase on the codes the model enters.
toUpperCase(s) ==
  CASE s = "aaa111" -> "AAA111"
    [] s = "bbb222" -> "BBB222"
    [] OTHER -> s

IsSpace(ch) == ch = " "

RECURSIVE TrimStart(_)
TrimStart(s) ==
  IF s # <<>> /\ IsSpace(Head(s)) THEN TrimStart(Tail(s)) ELSE s

RECURSIVE TrimEnd(_)
TrimEnd(s) ==
  IF s # <<>> /\ IsSpace(s[Len(s)]) THEN TrimEnd(SubSeq(s, 1, Len(s) - 1)) ELSE s

\* String.prototype.trim
trim(s) == TrimEnd(TrimStart(s))

\* roomName || `Room ${code}`
RoomNameOrDefault(roomName, code) ==
  IF roomName = "" THEN "Room " \o code ELSE roomName

SeqToSet(s) == { s[i] : i \in 1..Len(s) }

Min(S) == CHOOSE x \in S : \A y \in S : x <= y

VARIABLES
  variant,        \* which variant of the hook runs
  enforceNames,   \* backend has UNIQUE (room_id, display_name) on room_members
  dbRooms,        \* table rooms, in insertion order
  dbMembers,      \* table room_members, in insertion (joined_at) order
  dbMessages,     \* table messages, in created_at order
  nextMsgId,      \* next message id the backend issues
  storage,        \* per client: localStorage
  currentRoom,    \* per client: useState currentRoom
  currentUser,    \* per client: useState currentUser
  members,        \* per client: useState members
  messages,       \* per client: useState messages
  typingUsers,    \* per client: useState typingUsers
  sub,            \* per client: the live realtime channels (room and captured user)
  inbox,          \* per client: change notifications not yet delivered
  fetches,        \* per client: loadMessages / loadMembers requests in flight
  tasks,          \* per client: pending handler calls
  lastCall,       \* the handler call that returned last, with what it did
  calls,          \* handler calls and reloads made so far
  upsets,         \* requests that failed for a transient reason or were answered late
  peer,           \* the session of a second browser running the same hook
  messageText,    \* the text in the message input of the room page
  timers,         \* the times at which pending setTimeout callbacks are due
  cleanup,        \* the timeouts the cleanup of the typing effect clears
  now,            \* the time, in milliseconds
  lastKey         \* when the text of the input last changed

vars == << variant, enforceNames, dbRooms, dbMembers, dbMessages,
           nextMsgId, storage, currentRoom, currentUser, members, messages,
           typingUsers, sub, inbox, fetches, tasks, lastCall, calls, upsets, peer,
           messageText, timers, cleanup, now, lastKey >>

\* The state of the message input and its typing effect.
uiVars == << messageText, timers, cleanup, now, lastKey >>


\* ------------------------------------------------------------- records
NoMsg == [id |-> 0, room_id |-> 0, user_id |-> 0, display_name |-> "", text |-> <<>>]

MemberRow(id, room, user, name) ==
  [id |-> id, room_id |-> room, user_id |-> user, display_name |-> name,
   is_online |-> TRUE, is_typing |-> FALSE]

MessageRow(id, room, user, name, text) ==
  [id |-> id, room_id |-> room, user_id |-> user, display_name |-> name, text |-> text]

NoSub == [room |-> 0, user |-> 0]
PeerName == "Bob"
NoPeer == [room |-> 0, user |-> 0, user_id |-> 0]
EmptyStorage == [room |-> NoRoom, user |-> NoUser, user_id |-> 0]

Toast(title, description) == <<title, description>>

\* A pending call of a handler: its arguments, the closure values it captured,
\* where it stands, and what it did so far.
NewTask(kind, pc) ==
  [client |-> "", kind |-> kind, pc |-> pc, viaCreate |-> FALSE, roomName |-> "",
   displayName |-> "", code |-> "", room |-> NoRoom, user |-> NoUser,
   text |-> <<>>, msgId |-> 0, flag |-> FALSE,
   inserts |-> 0, conflicts |-> 0, lookup |-> "none", member |-> "none",
   removed |-> FALSE, setSession |-> FALSE, toasts |-> {}]

NoCall == NewTask("none", "done")

\* ------------------------------------------------------------- backend
RoomsWithCode(code) == { i \in 1..Len(dbRooms) : dbRooms[i].code = code }

\* "user-" + a random suffix: an identifier nobody holds yet.
UsedUserIds ==
  { dbMembers[i].user_id : i \in 1..Len(dbMembers) }
    \cup { dbMessages[i].user_id : i \in 1..Len(dbMessages) }
    \cup { currentUser[c].id : c \in Clients }
    \cup { storage[c].user.id : c \in Clients }
    \cup { storage[c].user_id : c \in Clients }
    \cup { peer.user, peer.user_id }
    \cup UNION { { t.user.id : t \in tasks[c] } : c \in Clients }

makeRandomId == Min((1..(MaxMembers + 4 * Cardinality(Clients) + MaxMsgs)) \ UsedUserIds)

\* A change in room r is notified to every client whose channels filter on r.
CanNotify(r) == \A c \in Clients : sub[c].room = r => Len(inbox[c]) < MaxInbox

Notify(inb, r, ev) ==
  [c \in Clients |-> IF sub[c].room = r THEN Append(inb[c], ev) ELSE inb[c]]

MemberEvent == [type |-> "member", row |-> NoMsg]

\* UNIQUE (room_id, display_name), where the backend has it: error 23505.
NameConflict(room, name) ==
  enforceNames /\ \E i \in 1..Len(dbMembers) :
                     dbMembers[i].room_id = room /\ dbMembers[i].display_name = name

\* .update(patch).eq("room_id", room).eq("user_id", user)
UpdateMembers(room, user, patch) ==
  [i \in 1..Len(dbMembers) |->
     IF dbMembers[i].room_id = room /\ dbMembers[i].user_id = user
       THEN [f \in DOMAIN dbMembers[i] |->
               IF f \in DOMAIN patch THEN patch[f] ELSE dbMembers[i][f]]
       ELSE dbMembers[i]]

MemberMatches(room, user) ==
  \E i \in 1..Len(dbMembers) : dbMembers[i].room_id = room /\ dbMembers[i].user_id = user

\* useState(""), and no timeout set yet.
InputAtRest ==
  /\ messageText = [c \in Clients |-> ""]
  /\ timers = [c \in Clients |-> {}]
  /\ cleanup = [c \in Clients |-> {}]
  /\ now = 0
  /\ lastKey = [c \in Clients |-> 0]

Init ==
  /\ variant \in Variants
  /\ enforceNames \in BOOLEAN
  /\ dbRooms = <<>>
  /\ dbMembers = <<>>
  /\ dbMessages = <<>>
  /\ nextMsgId = 1
  /\ storage = [c \in Clients |-> EmptyStorage]
  /\ currentRoom = [c \in Clients |-> NoRoom]
  /\ currentUser = [c \in Clients |-> NoUser]
  /\ members = [c \in Clients |-> <<>>]
  /\ messages = [c \in Clients |-> <<>>]
  /\ typingUsers = [c \in Clients |-> <<>>]
  /\ sub = [c \in Clients |-> NoSub]
  /\ inbox = [c \in Clients |-> <<>>]
  /\ fetches = [c \in Clients |-> {}]
  /\ tasks = [c \in Clients |-> {}]
  /\ lastCall = NoCall
  /\ calls = 0
  /\ upsets = 0
  /\ peer = NoPeer
  /\ InputAtRest

\* ------------------------------------------------------- render / effects
\* Index.tsx:20  the landing page (create, join) shows unless both are set.
LandingShown(c) == currentRoom[c] = NoRoom \/ currentUser[c] = NoUser

MsgFetch(room) ==
  [kind |-> "messages", room |-> room, user |-> 0, served |-> FALSE,
   msgRows |-> <<>>, memRows |-> <<>>]

MemFetch(room, user) ==
  [kind |-> "members", room |-> room, user |-> user, served |-> FALSE,
   msgRows |-> <<>>, memRows |-> <<>>]

\* Whether the subscription effect runs again when the session becomes (room, user):
\* its dependencies are [currentRoom?.id] in the typing variant and the objects
\* [currentRoom, currentUser] in the retry variant.
EffectReruns(c, room, user) ==
  IF variant = "typing" THEN room.id # currentRoom[c].id
  ELSE room # currentRoom[c] \/ user # currentUser[c] \/ room # NoRoom

\* An effect that leaves the channels as they are, for comparison with EffectSub.
SubKept(c, room, user) == sub[c]

\* The effect's cleanup removes both channels; its body, when a room is current,
\* issues loadMessages and loadMembers and opens the two channels.
EffectSub(c, room, user) ==
  IF ~EffectReruns(c, room, user) THEN sub[c]
  ELSE IF room = NoRoom THEN NoSub ELSE [room |-> room.id, user |-> user.id]

EffectFetches(c, room, user) ==
  IF EffectReruns(c, room, user) /\ room # NoRoom
    THEN fetches[c] \cup { MsgFetch(room.id), MemFetch(room.id, user.id) }
    ELSE fetches[c]

EffectInbox(c, inb, room, user) ==
  IF EffectReruns(c, room, user) THEN <<>> ELSE inb

\* One handler call at a time is followed per browser.
Idle(c) == tasks[c] = {}

\* A backend request fails for a transient reason (network, backend) or not.
Fault(fail) ==
  /\ fail => upsets < MaxUpsets
  /\ upsets' = IF fail THEN upsets + 1 ELSE upsets

\* What is kept of a call that returned: what it did, not its arguments.
CallRecord(c, t) ==
  [NoCall EXCEPT !.client = c, !.kind = t.kind, !.viaCreate = t.viaCreate,
                 !.inserts = t.inserts, !.conflicts = t.conflicts,
                 !.lookup = t.lookup, !.member = t.member, !.removed = t.removed,
                 !.setSession = t.setSession, !.toasts = t.toasts]

\* The call t of client c returns as t2: it leaves tasks and becomes the last call.
Finish(c, t, t2) ==
  /\ tasks' = [tasks EXCEPT ![c] = @ \ {t}]
  /\ lastCall' = CallRecord(c, t2)

Advance(c, t, t2) ==
  /\ tasks' = [tasks EXCEPT ![c] = (@ \ {t}) \cup {t2}]
  /\ UNCHANGED lastCall

WithToast(t, title, description) ==
  [t EXCEPT !.toasts = @ \cup { Toast(title, description) }]

\* ------------------------------------------------------------ createRoom
createRoom(c, roomName, displayName) ==
  /\ calls < MaxCalls
  /\ UNCHANGED peer
  /\ calls' = calls + 1
  /\ LandingShown(c)
  /\ Idle(c)
  /\ tasks' = [tasks EXCEPT ![c] = @ \cup
       { [NewTask("create", "insert") EXCEPT !.roomName = roomName,
                                            !.displayName = displayName] }]
  /\ UNCHANGED << upsets, variant, enforceNames, dbRooms, dbMembers,
                  dbMessages, nextMsgId, storage, currentRoom, currentUser,
                  members, messages, typingUsers, sub, inbox, fetches, lastCall >>
  /\ UNCHANGED uiVars

\* rooms.code is UNIQUE (part_000:4): a taken code is rejected with 23505.
InsertRoomResult(code, fail) ==
  IF fail THEN "error" ELSE IF RoomsWithCode(code) # {} THEN "23505" ELSE "ok"

\* A createRoom that inserts again after any refused insertion, for comparison
\* with RetriesInsert.
RetriesAnyError(res, conflicts) ==
  variant = "retry" /\ conflicts < MaxAttempts

\* Whether createRoom inserts again after the result res of its insertion, having
\* met `conflicts` uniqueness conflicts so far (this one included).
RetriesInsert(res, conflicts) ==
  variant = "retry" /\ res = "23505" /\ conflicts < MaxAttempts

CreateErrorTitle == IF variant = "typing" THEN "Error" ELSE "Error creating room"

\* The rooms insert of createRoom answers, for the code generated for it.
CreateInsert(c, t, code, fail) ==
  /\ t \in tasks[c] /\ t.kind = "create" /\ t.pc = "insert"
  /\ Fault(fail)
  /\ LET res == InsertRoomResult(code, fail)
         t1 == [t EXCEPT !.inserts = @ + 1,
                         !.conflicts = IF res = "23505" THEN @ + 1 ELSE @]
     IN  CASE res = "ok" ->
                /\ dbRooms' = Append(dbRooms,
                     [id |-> Len(dbRooms) + 1, code |-> code,
                      name |-> RoomNameOrDefault(t.roomName, code)])
                \* await joinRoom(code, displayName): its rooms select is issued
                /\ Advance(c, t, [t1 EXCEPT !.pc = "lookup", !.viaCreate = TRUE,
                                            !.code = code])
           [] res # "ok" /\ RetriesInsert(res, t1.conflicts) ->
                /\ Advance(c, t, t1)
                /\ UNCHANGED dbRooms
           [] OTHER ->
                /\ Finish(c, t, WithToast(t1, CreateErrorTitle, res))
                /\ UNCHANGED dbRooms
  /\ UNCHANGED << calls, peer, variant, enforceNames, dbMembers, dbMessages,
                  nextMsgId, storage, currentRoom, currentUser, members,
                  messages, typingUsers, sub, inbox, fetches >>
  /\ UNCHANGED uiVars

\* -------------------------------------------------------------- joinRoom
\* The call itself: the landing page is shown and its join dialog is submitted.
onJoinRoom(c, roomCode, displayName) ==
  /\ calls < MaxCalls
  /\ UNCHANGED peer
  /\ calls' = calls + 1
  /\ LandingShown(c)
  /\ tasks' = [tasks EXCEPT ![c] = @ \cup
       { [NewTask("join", "lookup") EXCEPT !.code = roomCode,
                                          !.displayName = displayName] }]
  /\ UNCHANGED << upsets, variant, enforceNames, dbRooms, dbMembers,
                  dbMessages, nextMsgId, storage, currentRoom, currentUser,
                  members, messages, typingUsers, sub, inbox, fetches, lastCall >>
  /\ UNCHANGED uiVars

joinRoom(c, roomCode, displayName) ==
  /\ Idle(c)
  /\ onJoinRoom(c, roomCode, displayName)

JoinErrorTitle == IF variant = "typing" THEN "Error" ELSE "Error joining room"

\* joinRoom returns; inside createRoom the caller then toasts "Room created!".
ReturnFromJoin(c, t, t2) ==
  /\ tasks' = [tasks EXCEPT ![c] = @ \ {t}]
  /\ lastCall' = CallRecord(c, IF t2.viaCreate
                                    THEN WithToast(t2, "Room created!", "Room code")
                                    ELSE t2)

\* The user id joinRoom writes: a fresh one per call in the typing variant,
\* getOrCreateUserId() in the retry variant.
JoinUserId(c) ==
  IF variant = "typing" THEN makeRandomId
  ELSE IF storage[c].user_id # 0 THEN storage[c].user_id ELSE makeRandomId

\* The rooms select of joinRoom answers: .eq("code", roomCode.toUpperCase()).
JoinLookup(c, t, fail) ==
  /\ t \in tasks[c] /\ t.pc = "lookup"
  /\ Fault(fail)
  /\ LET found == RoomsWithCode(toUpperCase(t.code))
     IN  IF fail \/ found = {}
           THEN /\ ReturnFromJoin(c, t,
                     WithToast([t EXCEPT !.lookup = "fail"],
                               JoinErrorTitle, "Room not found"))
                /\ UNCHANGED storage
           ELSE LET room == dbRooms[CHOOSE i \in found : TRUE]
                    uid == JoinUserId(c)
                IN  /\ Advance(c, t, [t EXCEPT !.pc = "member", !.lookup = "ok",
                          !.room = room,
                          !.user = [id |-> uid, displayName |-> t.displayName]])
                    /\ storage' = IF variant = "retry"
                                    THEN [storage EXCEPT ![c].user_id = uid]
                                    ELSE storage
  /\ UNCHANGED << calls, peer, variant, enforceNames, dbRooms, dbMembers,
                  dbMessages, nextMsgId, currentRoom, currentUser, members,
                  messages, typingUsers, sub, inbox, fetches >>
  /\ UNCHANGED uiVars

\* The backend's answer to the room_members write of joinRoom.
InsertMemberResult(room, name, fail) ==
  IF fail THEN "error" ELSE IF NameConflict(room, name) THEN "23505" ELSE "ok"

\* .insert(row) (typing variant) and .upsert(row) (retry variant).  The row carries
\* no id, the table's only key is its generated id (part_000:12), and upsert
\* resolves conflicts on the primary key: both add a row.
WriteMember(rows, room, user, name) ==
  LET id == Len(rows) + 1
  IN  IF \E i \in 1..Len(rows) : rows[i].id = id
        THEN [i \in 1..Len(rows) |->
                IF rows[i].id = id THEN MemberRow(id, room, user, name) ELSE rows[i]]
        ELSE Append(rows, MemberRow(id, room, user, name))

\* Whether joinRoom goes on to set the session after the member write's result:
\* the typing variant throws only on 23505, the retry variant on any error.
JoinProceeds(res) ==
  IF variant = "typing" THEN res # "23505" ELSE res = "ok"

\* The room_members write of joinRoom answers.
JoinMember(c, t, fail) ==
  /\ t \in tasks[c] /\ t.pc = "member"
  /\ Fault(fail)
  /\ LET res == InsertMemberResult(t.room.id, t.displayName, fail)
         t1 == [t EXCEPT !.member = res]
     IN  /\ res = "ok" => Len(dbMembers) < MaxMembers /\ CanNotify(t.room.id)
         /\ dbMembers' = IF res = "ok"
                           THEN WriteMember(dbMembers, t.room.id, t.user.id, t.displayName)
                           ELSE dbMembers
         /\ IF JoinProceeds(res)
              THEN /\ currentRoom' = [currentRoom EXCEPT ![c] = t.room]
                   /\ currentUser' = [currentUser EXCEPT ![c] = t.user]
                   /\ storage' = [storage EXCEPT ![c].room = t.room, ![c].user = t.user]
                   /\ sub' = [sub EXCEPT ![c] = EffectSub(c, t.room, t.user)]
                   /\ fetches' = [fetches EXCEPT ![c] = EffectFetches(c, t.room, t.user)]
                   /\ inbox' = LET inb == IF res = "ok"
                                            THEN Notify(inbox, t.room.id, MemberEvent)
                                            ELSE inbox
                               IN [inb EXCEPT ![c] = EffectInbox(c, @, t.room, t.user)]
                   /\ ReturnFromJoin(c, t,
                        IF variant = "retry"
                          THEN WithToast([t1 EXCEPT !.setSession = TRUE],
                                         "Joined room!", "Welcome")
                          ELSE [t1 EXCEPT !.setSession = TRUE])
              ELSE /\ ReturnFromJoin(c, t,
                        WithToast(t1, JoinErrorTitle,
                          IF variant = "typing"
                            THEN "That name is already taken in this room."
                            ELSE res))
                   /\ UNCHANGED << currentRoom, currentUser, storage, sub, fetches, inbox >>
  /\ UNCHANGED << calls, peer, variant, enforceNames, dbRooms, dbMessages,
                  nextMsgId, members, messages, typingUsers >>
  /\ UNCHANGED uiVars

\* ------------------------------------------------------------- leaveRoom
\* The leave button is part of the room page, shown when both are set.
leaveRoom(c) ==
  /\ calls < MaxCalls
  /\ UNCHANGED peer
  /\ calls' = calls + 1
  /\ ~LandingShown(c)
  /\ Idle(c)
  /\ tasks' = [tasks EXCEPT ![c] = @ \cup
       { [NewTask("leave", "update") EXCEPT !.room = currentRoom[c],
                                           !.user = currentUser[c]] }]
  /\ UNCHANGED << upsets, variant, enforceNames, dbRooms, dbMembers,
                  dbMessages, nextMsgId, storage, currentRoom, currentUser,
                  members, messages, typingUsers, sub, inbox, fetches, lastCall >>
  /\ UNCHANGED uiVars

\* The patch leaveRoom sends: the typing variant clears is_typing too.
OfflinePatch ==
  IF variant = "typing"
    THEN [is_online |-> FALSE, is_typing |-> FALSE]
    ELSE [is_online |-> FALSE]

\* The typing set leaveRoom leaves behind: it calls no setTypingUsers.
TypingAfterLeave(c) == typingUsers[c]

\* A leave that keeps what is stored, for comparison with StorageAfterLeave.
StorageKeptOnLeave(c) == storage[c]

\* A leave that removes the room entry only, for comparison with StorageAfterLeave.
StorageUserKeptOnLeave(c) == [storage[c] EXCEPT !.room = NoRoom]

\* localStorage after leaveRoom: removeItem of the room and of the user entry; the
\* "user_id" entry of the retry variant stays.
StorageAfterLeave(c) == [storage[c] EXCEPT !.room = NoRoom, !.user = NoUser]

\* The mark-offline update of leaveRoom answers (or fails); the teardown follows.
LeaveUpdate(c, t, fail) ==
  /\ t \in tasks[c] /\ t.kind = "leave" /\ t.pc = "update"
  /\ Fault(fail)
  /\ LET hit == ~fail /\ MemberMatches(t.room.id, t.user.id)
     IN  /\ hit => CanNotify(t.room.id)
         /\ dbMembers' = IF hit THEN UpdateMembers(t.room.id, t.user.id, OfflinePatch)
                         ELSE dbMembers
         /\ inbox' = LET inb == IF hit THEN Notify(inbox, t.room.id, MemberEvent)
                                ELSE inbox
                     IN [inb EXCEPT ![c] = EffectInbox(c, @, NoRoom, NoUser)]
  /\ storage' = [storage EXCEPT ![c] = StorageAfterLeave(c)]
  /\ currentRoom' = [currentRoom EXCEPT ![c] = NoRoom]
  /\ currentUser' = [currentUser EXCEPT ![c] = NoUser]
  /\ members' = [members EXCEPT ![c] = <<>>]
  /\ messages' = [messages EXCEPT ![c] = <<>>]
  /\ typingUsers' = [typingUsers EXCEPT ![c] = TypingAfterLeave(c)]
  /\ sub' = [sub EXCEPT ![c] = EffectSub(c, NoRoom, NoUser)]
  /\ fetches' = [fetches EXCEPT ![c] = EffectFetches(c, NoRoom, NoUser)]
  /\ Finish(c, t, [t EXCEPT !.member = IF fail THEN "error" ELSE "ok"])
  /\ UNCHANGED << calls, peer, variant, enforceNames, dbRooms, dbMessages, nextMsgId >>
  /\ UNCHANGED uiVars

\* ----------------------------------------------------------- sendMessage
\* A handler that goes on whatever the session is.
SessionNotLookedAt(c) == TRUE

\* !(!currentRoom || !currentUser): the test sendMessage, deleteMessage and
\* updateTyping make before anything else.
HasSession(c) == currentRoom[c] # NoRoom /\ currentUser[c] # NoUser

\* if (!currentRoom || !currentUser || !text.trim()) return;
SendGuard(c, text) == HasSession(c) /\ trim(text) # <<>>

\* A row text that is the text as typed, for comparison with SentText.
SentTextAsTyped(text) == text

\* The text sendMessage puts in the row.
SentText(text) == trim(text)

sendMessage(c, text) ==
  /\ calls < MaxCalls
  /\ UNCHANGED peer
  /\ calls' = calls + 1
  /\ Idle(c)
  /\ IF SendGuard(c, text)
       THEN /\ tasks' = [tasks EXCEPT ![c] = @ \cup
                 { [NewTask("send", "insert") EXCEPT !.room = currentRoom[c],
                      !.user = currentUser[c], !.text = SentText(text)] }]
            /\ UNCHANGED lastCall
       ELSE /\ lastCall' = [NewTask("send", "noop") EXCEPT !.client = c]
            /\ UNCHANGED tasks
  /\ UNCHANGED << upsets, variant, enforceNames, dbRooms, dbMembers,
                  dbMessages, nextMsgId, storage, currentRoom, currentUser,
                  members, messages, typingUsers, sub, inbox, fetches >>
  /\ UNCHANGED uiVars

\* The messages insert of sendMessage answers.
SendInsert(c, t, fail) ==
  /\ t \in tasks[c] /\ t.kind = "send" /\ t.pc = "insert"
  /\ Fault(fail)
  /\ IF fail
       THEN /\ Finish(c, t, IF variant = "retry"
                           THEN WithToast(t, "Error sending message", "error")
                           ELSE t)
            /\ UNCHANGED << dbMessages, nextMsgId, inbox >>
       ELSE LET row == MessageRow(nextMsgId, t.room.id, t.user.id,
                                  t.user.displayName, t.text)
            IN  /\ nextMsgId <= MaxMsgs
                /\ CanNotify(t.room.id)
                /\ dbMessages' = Append(dbMessages, row)
                /\ nextMsgId' = nextMsgId + 1
                /\ inbox' = Notify(inbox, t.room.id, [type |-> "msgInsert", row |-> row])
                /\ Finish(c, t, [t EXCEPT !.inserts = 1, !.msgId = row.id])
  /\ UNCHANGED << calls, peer, variant, enforceNames, dbRooms, dbMembers,
                  storage, currentRoom, currentUser, members, messages,
                  typingUsers, sub, fetches >>
  /\ UNCHANGED uiVars

\* --------------------------------------------------------- deleteMessage
\* The row policy of messages lets a DELETE reach the rows its predicate matches.
DeletePolicy == TRUE

\* A delete predicate without .eq("user_id", user), for comparison with
\* DeleteMatches.
DeleteMatchesAnyAuthor(m, id, room, user) ==
  m.id = id /\ m.room_id = room

\* .delete().eq("id", id).eq("room_id", room).eq("user_id", user)
DeleteMatches(m, id, room, user) ==
  m.id = id /\ m.room_id = room /\ m.user_id = user

deleteMessage(c, id) ==
  /\ calls < MaxCalls
  /\ UNCHANGED peer
  /\ calls' = calls + 1
  /\ variant = "typing"
  /\ Idle(c)
  /\ IF HasSession(c)
       THEN /\ tasks' = [tasks EXCEPT ![c] = @ \cup
                 { [NewTask("delete", "delete") EXCEPT !.room = currentRoom[c],
                      !.user = currentUser[c], !.msgId = id] }]
            /\ UNCHANGED lastCall
       ELSE /\ lastCall' = [NewTask("delete", "noop") EXCEPT !.client = c]
            /\ UNCHANGED tasks
  /\ UNCHANGED << upsets, variant, enforceNames, dbRooms, dbMembers,
                  dbMessages, nextMsgId, storage, currentRoom, currentUser,
                  members, messages, typingUsers, sub, inbox, fetches >>
  /\ UNCHANGED uiVars

\* What deleteMessage does to the local list once the delete answered without
\* error: setMessages((prev) => prev.filter((m) => m.id !== id)).
LocalAfterDelete(c, id) == SelectSeq(messages[c], LAMBDA m : m.id # id)

\* The messages delete of deleteMessage answers.
DeleteExec(c, t, fail) ==
  /\ t \in tasks[c] /\ t.kind = "delete" /\ t.pc = "delete"
  /\ Fault(fail)
  /\ IF fail
       THEN /\ Finish(c, t, WithToast(t, "Delete failed", "error"))
            /\ UNCHANGED << dbMessages, inbox, messages >>
       ELSE LET Hit(m) == DeletePolicy /\ DeleteMatches(m, t.msgId, t.room.id, t.user.id)
                gone == SelectSeq(dbMessages, Hit)
            IN  /\ gone # <<>> => CanNotify(gone[1].room_id)
                /\ dbMessages' = SelectSeq(dbMessages, LAMBDA m : ~Hit(m))
                /\ inbox' = IF gone = <<>> THEN inbox
                            ELSE Notify(inbox, gone[1].room_id,
                                        [type |-> "msgDelete", row |-> gone[1]])
                /\ messages' = [messages EXCEPT ![c] = LocalAfterDelete(c, t.msgId)]
                /\ Finish(c, t, [t EXCEPT !.removed = (gone # <<>>)])
  /\ UNCHANGED << calls, peer, variant, enforceNames, dbRooms, dbMembers,
                  nextMsgId, storage, currentRoom, currentUser, members,
                  typingUsers, sub, fetches >>
  /\ UNCHANGED uiVars

\* ---------------------------------------------------------- updateTyping
\* updateTyping is called, by the page (onUpdateTyping) or directly.
onUpdateTyping(c, isTyping) ==
  /\ calls < MaxCalls
  /\ UNCHANGED peer
  /\ calls' = calls + 1
  /\ variant = "typing"
  /\ Idle(c)
  /\ IF HasSession(c)
       THEN /\ tasks' = [tasks EXCEPT ![c] = @ \cup
                 { [NewTask("typing", "update") EXCEPT !.room = currentRoom[c],
                      !.user = currentUser[c], !.flag = isTyping] }]
            /\ UNCHANGED lastCall
       ELSE /\ lastCall' = [NewTask("typing", "noop") EXCEPT !.client = c]
            /\ UNCHANGED tasks
  /\ UNCHANGED << upsets, variant, enforceNames, dbRooms, dbMembers,
                  dbMessages, nextMsgId, storage, currentRoom, currentUser,
                  members, messages, typingUsers, sub, inbox, fetches >>

updateTyping(c, isTyping) ==
  /\ onUpdateTyping(c, isTyping)
  /\ UNCHANGED uiVars

\* The is_typing update of updateTyping answers.
TypingUpdate(c, t, fail) ==
  /\ t \in tasks[c] /\ t.kind = "typing" /\ t.pc = "update"
  /\ Fault(fail)
  /\ LET hit == ~fail /\ MemberMatches(t.room.id, t.user.id)
     IN  /\ hit => CanNotify(t.room.id)
         /\ dbMembers' = IF hit
              THEN UpdateMembers(t.room.id, t.user.id, [is_typing |-> t.flag])
              ELSE dbMembers
         /\ inbox' = IF hit THEN Notify(inbox, t.room.id, MemberEvent) ELSE inbox
  /\ Finish(c, t, [t EXCEPT !.member = IF fail THEN "error" ELSE "ok"])
  /\ UNCHANGED << calls, peer, variant, enforceNames, dbRooms, dbMessages,
                  nextMsgId, storage, currentRoom, currentUser, members,
                  messages, typingUsers, sub, fetches >>
  /\ UNCHANGED uiVars

\* ------------------------------------------------------ updatePresence
\* .update({ last_seen_at: ..., is_online: true })
HeartbeatPatch == [is_online |-> TRUE]

\* The interval set by the subscription effect of the retry variant exists from
\* an effect run with a room to the next cleanup.
HeartbeatTimer(c) == variant = "retry" /\ sub[c] # NoSub

\* setInterval(updatePresence, 30000) fires: updatePresence of the effect's
\* render is called and, with room and user set, sends its update.
Heartbeat(c) ==
  /\ calls < MaxCalls
  /\ calls' = calls + 1
  /\ HeartbeatTimer(c)
  /\ HasSession(c)
  /\ tasks' = [tasks EXCEPT ![c] = @ \cup
       { [NewTask("presence", "update") EXCEPT !.room = currentRoom[c],
                                              !.user = currentUser[c]] }]
  /\ UNCHANGED << upsets, peer, variant, enforceNames, dbRooms, dbMembers,
                  dbMessages, nextMsgId, storage, currentRoom, currentUser,
                  members, messages, typingUsers, sub, inbox, fetches, lastCall >>
  /\ UNCHANGED uiVars

\* The update of updatePresence answers; a failure is logged and nothing else.
PresenceUpdate(c, t, fail) ==
  /\ t \in tasks[c] /\ t.kind = "presence" /\ t.pc = "update"
  /\ Fault(fail)
  /\ LET hit == ~fail /\ MemberMatches(t.room.id, t.user.id)
     IN  /\ hit => CanNotify(t.room.id)
         /\ dbMembers' = IF hit
              THEN UpdateMembers(t.room.id, t.user.id, HeartbeatPatch)
              ELSE dbMembers
         /\ inbox' = IF hit THEN Notify(inbox, t.room.id, MemberEvent) ELSE inbox
  /\ tasks' = [tasks EXCEPT ![c] = @ \ {t}]
  /\ UNCHANGED << calls, peer, variant, enforceNames, dbRooms, dbMessages,
                  nextMsgId, storage, currentRoom, currentUser, members,
                  messages, typingUsers, sub, fetches, lastCall >>
  /\ UNCHANGED uiVars

\* ------------------------------------------------- change notifications
\* The channel callbacks of the subscription effect, on the oldest notification.
Deliver(c) ==
  /\ inbox[c] # <<>>
  /\ LET ev == Head(inbox[c])
     IN  /\ inbox' = [inbox EXCEPT ![c] = Tail(@)]
         /\ CASE ev.type = "msgInsert" ->
                   \* setMessages((prev) => [...prev, payload.new])
                   /\ messages' = [messages EXCEPT ![c] = Append(@, ev.row)]
                   /\ UNCHANGED fetches
              [] ev.type = "msgDelete" ->
                   /\ messages' = [messages EXCEPT ![c] =
                        SelectSeq(@, LAMBDA m : m.id # ev.row.id)]
                   /\ UNCHANGED fetches
              [] OTHER ->
                   \* () => loadMembers(currentRoom.id), of the effect's closure
                   /\ fetches' = [fetches EXCEPT ![c] =
                        @ \cup { MemFetch(sub[c].room, sub[c].user) }]
                   /\ UNCHANGED messages
  /\ UNCHANGED << calls, upsets, peer, variant, enforceNames, dbRooms, dbMembers,
                  dbMessages, nextMsgId, storage, currentRoom, currentUser,
                  members, typingUsers, sub, tasks, lastCall >>
  /\ UNCHANGED uiVars

\* .from("messages").select("*").eq("room_id", room).order("created_at")
SelectMessages(room) == SelectSeq(dbMessages, LAMBDA m : m.room_id = room)

\* .from("room_members").select("*").eq("room_id", room), with
\* .eq("is_online", true) in the typing variant and .order("joined_at") in the
\* retry variant.
SelectMembers(room) ==
  IF variant = "typing"
    THEN SelectSeq(dbMembers, LAMBDA m : m.room_id = room /\ m.is_online)
    ELSE SelectSeq(dbMembers, LAMBDA m : m.room_id = room)

\* The orders a select may return rows in.
Orders(rows) ==
  { [i \in 1..Len(rows) |-> rows[p[i]]] : p \in Permutations(1..Len(rows)) }

\* The rows loadMembers may receive.  The typing variant's select has no
\* .order(...), so the backend returns its rows in an order of its choosing.
MemberRows(room) ==
  IF variant = "typing" THEN Orders(SelectMembers(room)) ELSE { SelectMembers(room) }

\* The answers the backend may give to the load request f (or an error).
Answer(f, fail) ==
  IF fail THEN { [f EXCEPT !.served = TRUE, !.kind = f.kind \o "-error"] }
  ELSE IF f.kind = "messages"
    THEN { [f EXCEPT !.served = TRUE, !.msgRows = SelectMessages(f.room)] }
    ELSE { [f EXCEPT !.served = TRUE, !.memRows = rows] : rows \in MemberRows(f.room) }

\* The names loadMembers puts in the typing set: the typing rows of others,
\* "others" by the user of the closure the request was made in.
TypingNames(rows, user) ==
  LET typing == SelectSeq(rows, LAMBDA m : m.is_typing /\ m.user_id # user)
  IN  [i \in 1..Len(typing) |-> typing[i].display_name]

\* The continuation of loadMessages / loadMembers on the answer a.  On an error
\* the typing variant stores empty lists (data || []); the retry variant logs
\* and stores nothing.
Stores(c, a) ==
  CASE a.kind = "messages" ->
         /\ messages' = [messages EXCEPT ![c] = a.msgRows]
         /\ UNCHANGED << members, typingUsers >>
    [] a.kind = "members" ->
         /\ members' = [members EXCEPT ![c] = a.memRows]
         /\ typingUsers' = IF variant = "typing"
              THEN [typingUsers EXCEPT ![c] = TypingNames(a.memRows, a.user)]
              ELSE typingUsers
         /\ UNCHANGED messages
    [] a.kind = "messages-error" /\ variant = "typing" ->
         /\ messages' = [messages EXCEPT ![c] = <<>>]
         /\ UNCHANGED << members, typingUsers >>
    [] a.kind = "members-error" /\ variant = "typing" ->
         /\ members' = [members EXCEPT ![c] = <<>>]
         /\ typingUsers' = [typingUsers EXCEPT ![c] = <<>>]
         /\ UNCHANGED messages
    [] OTHER ->
         UNCHANGED << members, messages, typingUsers >>

\* A load request is answered and its continuation runs on the answer at once.
LoadNow(c, f, fail) ==
  /\ f \in fetches[c] /\ ~f.served
  /\ Fault(fail)
  /\ fetches' = [fetches EXCEPT ![c] = @ \ {f}]
  /\ \E a \in Answer(f, fail) : Stores(c, a)
  /\ UNCHANGED << calls, peer, variant, enforceNames, dbRooms, dbMembers,
                  dbMessages, nextMsgId, storage, currentRoom, currentUser,
                  sub, inbox, tasks, lastCall >>
  /\ UNCHANGED uiVars

\* A load request is answered, and the answer is on its way to the page.
ServeFetch(c, f) ==
  /\ f \in fetches[c] /\ ~f.served
  /\ upsets < MaxUpsets
  /\ upsets' = upsets + 1
  /\ \E a \in Answer(f, FALSE) : fetches' = [fetches EXCEPT ![c] = (@ \ {f}) \cup {a}]
  /\ UNCHANGED << calls, peer, variant, enforceNames, dbRooms, dbMembers,
                  dbMessages, nextMsgId, storage, currentRoom, currentUser,
                  members, messages, typingUsers, sub, inbox, tasks, lastCall >>
  /\ UNCHANGED uiVars

\* An answer that was on its way reaches the page: the continuation runs.
ApplyFetch(c, f) ==
  /\ f \in fetches[c] /\ f.served
  /\ fetches' = [fetches EXCEPT ![c] = @ \ {f}]
  /\ Stores(c, f)
  /\ UNCHANGED << calls, upsets, peer, variant, enforceNames, dbRooms,
                  dbMembers, dbMessages, nextMsgId, storage, currentRoom,
                  currentUser, sub, inbox, tasks, lastCall >>
  /\ UNCHANGED uiVars

\* ----------------------------------------------------------------- reload
\* The page is reloaded: the hook is constructed again from localStorage, and
\* everything the old page had pending is gone.  In the retry variant the
\* beforeunload handler first sends a mark-offline update, which may or may not
\* reach the backend.
\* A page that reads no saved session, for comparison with SavedSession.
NoSavedSession(c) == [room |-> NoRoom, user |-> NoUser]

\* The session the hook is constructed with: the parsed room and user entries.
SavedSession(c) == [room |-> storage[c].room, user |-> storage[c].user]

Reload(c, sent) ==
  /\ calls < MaxCalls
  /\ UNCHANGED peer
  /\ calls' = calls + 1
  /\ LET hit == /\ sent /\ variant = "retry"
                /\ currentRoom[c] # NoRoom /\ currentUser[c] # NoUser
                /\ MemberMatches(currentRoom[c].id, currentUser[c].id)
         room == SavedSession(c).room
         user == SavedSession(c).user
     IN  /\ sent => hit /\ CanNotify(currentRoom[c].id)
         /\ dbMembers' = IF hit
              THEN UpdateMembers(currentRoom[c].id, currentUser[c].id,
                                 [is_online |-> FALSE])
              ELSE dbMembers
         /\ inbox' = LET inb == IF hit THEN Notify(inbox, currentRoom[c].id, MemberEvent)
                                ELSE inbox
                     IN [inb EXCEPT ![c] = <<>>]
         /\ currentRoom' = [currentRoom EXCEPT ![c] = room]
         /\ currentUser' = [currentUser EXCEPT ![c] = user]
         /\ sub' = [sub EXCEPT ![c] =
              IF room = NoRoom THEN NoSub ELSE [room |-> room.id, user |-> user.id]]
         /\ fetches' = [fetches EXCEPT ![c] =
              IF room = NoRoom THEN {}
              ELSE { MsgFetch(room.id), MemFetch(room.id, user.id) }]
  /\ members' = [members EXCEPT ![c] = <<>>]
  /\ messages' = [messages EXCEPT ![c] = <<>>]
  /\ typingUsers' = [typingUsers EXCEPT ![c] = <<>>]
  /\ tasks' = [tasks EXCEPT ![c] = {}]
  /\ lastCall' = IF lastCall.client = c THEN NoCall ELSE lastCall
  /\ UNCHANGED << upsets, variant, enforceNames, dbRooms, dbMessages,
                  nextMsgId, storage >>
  /\ UNCHANGED uiVars

\* ------------------------------------------------------ second browser
\* Another browser runs the same hook as PeerName.  Only its session and what its
\* handlers write to the backend are followed, each handler in one step and
\* without faults; its own view of the room is not.
PeerJoin(roomCode) ==
  /\ calls < MaxCalls
  /\ calls' = calls + 1
  /\ peer.room = 0
  /\ RoomsWithCode(toUpperCase(roomCode)) # {}
  /\ LET room == dbRooms[CHOOSE i \in RoomsWithCode(toUpperCase(roomCode)) : TRUE]
         uid == IF variant = "retry" /\ peer.user_id # 0 THEN peer.user_id
                ELSE makeRandomId
     IN  /\ InsertMemberResult(room.id, PeerName, FALSE) = "ok"
         /\ Len(dbMembers) < MaxMembers
         /\ CanNotify(room.id)
         /\ dbMembers' = WriteMember(dbMembers, room.id, uid, PeerName)
         /\ inbox' = Notify(inbox, room.id, MemberEvent)
         /\ peer' = [room |-> room.id, user |-> uid,
                     user_id |-> IF variant = "retry" THEN uid ELSE 0]
  /\ UNCHANGED << upsets, variant, enforceNames, dbRooms, dbMessages,
                  nextMsgId, storage, currentRoom, currentUser, members, messages,
                  typingUsers, sub, fetches, tasks, lastCall >>
  /\ UNCHANGED uiVars

PeerSend(text) ==
  /\ calls < MaxCalls
  /\ calls' = calls + 1
  /\ peer.room # 0 /\ trim(text) # <<>>
  /\ nextMsgId <= MaxMsgs
  /\ CanNotify(peer.room)
  /\ LET row == MessageRow(nextMsgId, peer.room, peer.user, PeerName, SentText(text))
     IN  /\ dbMessages' = Append(dbMessages, row)
         /\ inbox' = Notify(inbox, peer.room, [type |-> "msgInsert", row |-> row])
  /\ nextMsgId' = nextMsgId + 1
  /\ UNCHANGED << upsets, peer, variant, enforceNames, dbRooms,
                  dbMembers, storage, currentRoom, currentUser, members, messages,
                  typingUsers, sub, fetches, tasks, lastCall >>
  /\ UNCHANGED uiVars

PeerTyping(isTyping) ==
  /\ calls < MaxCalls
  /\ calls' = calls + 1
  /\ variant = "typing"
  /\ peer.room # 0 /\ MemberMatches(peer.room, peer.user)
  /\ CanNotify(peer.room)
  /\ dbMembers' = UpdateMembers(peer.room, peer.user, [is_typing |-> isTyping])
  /\ inbox' = Notify(inbox, peer.room, MemberEvent)
  /\ UNCHANGED << upsets, peer, variant, enforceNames, dbRooms,
                  dbMessages, nextMsgId, storage, currentRoom, currentUser, members,
                  messages, typingUsers, sub, fetches, tasks, lastCall >>
  /\ UNCHANGED uiVars

PeerLeave ==
  /\ calls < MaxCalls
  /\ calls' = calls + 1
  /\ peer.room # 0 /\ MemberMatches(peer.room, peer.user)
  /\ CanNotify(peer.room)
  /\ dbMembers' = UpdateMembers(peer.room, peer.user, OfflinePatch)
  /\ inbox' = Notify(inbox, peer.room, MemberEvent)
  /\ peer' = [peer EXCEPT !.room = 0, !.user = 0]
  /\ UNCHANGED << upsets, variant, enforceNames, dbRooms, dbMessages,
                  nextMsgId, storage, currentRoom, currentUser, members, messages,
                  typingUsers, sub, fetches, tasks, lastCall >>
  /\ UNCHANGED uiVars

\* ------------------------------------------------------------------ spec
Next ==
  \E c \in Clients :
    \/ \E rn \in RoomNames, dn \in DisplayNames : createRoom(c, rn, dn)
    \/ \E code \in CodeInputs, dn \in DisplayNames : joinRoom(c, code, dn)
    \/ leaveRoom(c)
    \/ \E text \in Texts : sendMessage(c, text)
    \/ \E id \in 1..MaxMsgs : deleteMessage(c, id)
    \/ \E b \in BOOLEAN : updateTyping(c, b)
    \/ \E t \in tasks[c], fail \in BOOLEAN :
         \/ \E code \in Codes : CreateInsert(c, t, code, fail)
         \/ JoinLookup(c, t, fail)
         \/ JoinMember(c, t, fail)
         \/ LeaveUpdate(c, t, fail)
         \/ SendInsert(c, t, fail)
         \/ DeleteExec(c, t, fail)
         \/ TypingUpdate(c, t, fail)
         \/ PresenceUpdate(c, t, fail)
    \/ Heartbeat(c)
    \/ Deliver(c)
    \/ \E f \in fetches[c] :
         \/ \E fail \in BOOLEAN : LoadNow(c, f, fail)
         \/ ServeFetch(c, f)
         \/ ApplyFetch(c, f)
    \/ \E sent \in BOOLEAN : Reload(c, sent)
    \/ \E code \in Codes : PeerJoin(code)
    \/ \E text \in PeerTexts : PeerSend(text)
    \/ \E b \in BOOLEAN : PeerTyping(b)
    \/ PeerLeave

Spec == Init /\ [][Next]_vars

\* ------------------------------------------------ the typing effect
\* The room page (RoomInterface) of the typing variant: its message input and
\* the effect on [messageText] that reports typing.
\* The texts one key turns the text s into.
KeyTexts(s) ==
  CASE s = "" -> { "a" }
    [] s = "a" -> { "", "ab" }
    [] OTHER -> { "a" }

\* A cleanup that clears nothing, for comparison with ClearTimeout.
KeepTimeouts(pending, ids) == pending

\* return () => clearTimeout(timeout), run before the effect runs again.
ClearTimeout(pending, ids) == pending \ ids

\* onChange sets messageText; the cleanup of the last effect run and then the
\* effect run: onUpdateTyping(false) on an empty text, else onUpdateTyping(true)
\* and a timeout of ClearDelay.
Keystroke(c, text) ==
  /\ text \in KeyTexts(messageText[c])
  /\ messageText' = [messageText EXCEPT ![c] = text]
  /\ lastKey' = [lastKey EXCEPT ![c] = now]
  /\ LET kept == ClearTimeout(timers[c], cleanup[c])
     IN  IF text = ""
           THEN /\ onUpdateTyping(c, FALSE)
                /\ timers' = [timers EXCEPT ![c] = kept]
                /\ cleanup' = [cleanup EXCEPT ![c] = {}]
           ELSE /\ onUpdateTyping(c, TRUE)
                /\ timers' = [timers EXCEPT ![c] = kept \cup { now + ClearDelay }]
                /\ cleanup' = [cleanup EXCEPT ![c] = { now + ClearDelay }]
  /\ UNCHANGED now

\* A timeout that is due runs its callback: () => onUpdateTyping(false).
TimerFires(c, due) ==
  /\ due \in timers[c] /\ due <= now
  /\ timers' = [timers EXCEPT ![c] = @ \ {due}]
  /\ onUpdateTyping(c, FALSE)
  /\ UNCHANGED << messageText, cleanup, now, lastKey >>

\* Time passes, by TimeStep or up to the next timeout if that is due earlier,
\* and not while a timeout is due.
Tick ==
  /\ \A c \in Clients : \A due \in timers[c] : now < due
  /\ now' = Min({ now + TimeStep } \cup UNION { timers[c] : c \in Clients })
  /\ now' <= MaxTime
  /\ UNCHANGED << variant, enforceNames, dbRooms, dbMembers, dbMessages,
                  nextMsgId, storage, currentRoom, currentUser, members, messages,
                  typingUsers, sub, inbox, fetches, tasks, lastCall, calls, upsets,
                  peer, messageText, timers, cleanup, lastKey >>

\* The room page as it is once "Alice" has created room AAA111 in the typing
\* variant and its lists are loaded.
InitTyping ==
  LET room == [id |-> 1, code |-> "AAA111", name |-> "Test"]
      user == [id |-> 1, displayName |-> "Alice"]
      row  == MemberRow(1, 1, 1, "Alice")
  IN  /\ variant = "typing"
      /\ enforceNames = FALSE
      /\ dbRooms = << room >>
      /\ dbMembers = << row >>
      /\ dbMessages = <<>>
      /\ nextMsgId = 1
      /\ storage = [c \in Clients |-> [room |-> room, user |-> user, user_id |-> 0]]
      /\ currentRoom = [c \in Clients |-> room]
      /\ currentUser = [c \in Clients |-> user]
      /\ members = [c \in Clients |-> << row >>]
      /\ messages = [c \in Clients |-> <<>>]
      /\ typingUsers = [c \in Clients |-> <<>>]
      /\ sub = [c \in Clients |-> [room |-> 1, user |-> 1]]
      /\ inbox = [c \in Clients |-> <<>>]
      /\ fetches = [c \in Clients |-> {}]
      /\ tasks = [c \in Clients |-> {}]
      /\ lastCall = NoCall
      /\ calls = 0
      /\ upsets = 0
      /\ peer = NoPeer
      /\ InputAtRest

NextTyping ==
  \/ \E c \in Clients :
       \/ \E text \in { "", "a", "ab" } : Keystroke(c, text)
       \/ \E due \in timers[c] : TimerFires(c, due)
       \/ \E t \in tasks[c], fail \in BOOLEAN : TypingUpdate(c, t, fail)
       \/ Deliver(c)
       \/ \E f \in fetches[c], fail \in BOOLEAN : LoadNow(c, f, fail)
  \/ Tick

SpecTyping == InitTyping /\ [][NextTyping]_vars

\* ------------------------------------------- joining again while joining
\* The landing page stays as it is while a create or join is pending (its
\* `loading` prop is never passed nor read), so the join dialog can be opened
\* and submitted again: up to MaxPending calls are pending at once.
joinRoomAgain(c, roomCode, displayName) ==
  /\ tasks[c] # {}
  /\ Cardinality(tasks[c]) < MaxPending
  /\ \A t \in tasks[c] : t.kind \in {"create", "join"}
  /\ onJoinRoom(c, roomCode, displayName)

NextOverlap ==
  \E c \in Clients :
    \/ \E rn \in RoomNames, dn \in DisplayNames : createRoom(c, rn, dn)
    \/ \E code \in CodeInputs, dn \in DisplayNames : joinRoom(c, code, dn)
    \/ \E code \in CodeInputs, dn \in DisplayNames : joinRoomAgain(c, code, dn)
    \/ leaveRoom(c)
    \/ \E t \in tasks[c], fail \in BOOLEAN :
         \/ \E code \in Codes : CreateInsert(c, t, code, fail)
         \/ JoinLookup(c, t, fail)
         \/ JoinMember(c, t, fail)
         \/ LeaveUpdate(c, t, fail)
    \/ Deliver(c)
    \/ \E f \in fetches[c], fail \in BOOLEAN : LoadNow(c, f, fail)

SpecOverlap == Init /\ [][NextOverlap]_vars

\* ---------------------------------------------------------------- claims
Active(c) == currentRoom[c] # NoRoom /\ currentUser[c] # NoUser
Anonymous(c) == currentRoom[c] = NoRoom /\ currentUser[c] = NoUser

Signalled(call, title) == \E x \in call.toasts : x[1] = title

Errored(call) ==
  \/ Signalled(call, "Error")
  \/ Signalled(call, "Error creating room")
  \/ Signalled(call, "Error joining room")

IsEntry(call) == call.kind \in {"create", "join"}

\* C1: when every rooms insert of a createRoom call was rejected with a code
\* conflict, the call made exactly 5 inserts, surfaced a creation error, left the
\* session anonymous and wrote no member row.
C1_FiveAttemptsThenCreationFailed ==
  (lastCall.kind = "create" /\ lastCall.inserts > 0
     /\ lastCall.conflicts = lastCall.inserts)
  => /\ lastCall.inserts = MaxAttempts
     /\ Signalled(lastCall, CreateErrorTitle)
     /\ Anonymous(lastCall.client)
     /\ lastCall.member = "none"

\* C2: the backend holds at most one room_members row per (room_id, user_id):
\* joining again updates the row and adds none.
C2_OneRowPerRoomAndUser ==
  \A i, j \in 1..Len(dbMembers) :
    (dbMembers[i].room_id = dbMembers[j].room_id
       /\ dbMembers[i].user_id = dbMembers[j].user_id) => i = j

\* The rows a members fetch returns for the current (room, user) of client c.
OwnRows(c) ==
  SelectSeq(SelectMembers(currentRoom[c].id),
            LAMBDA m : m.user_id = currentUser[c].id)

\* C3: after a join that set the session, the members fetched for the room hold
\* exactly one row of the (room, user) pair, and it is online.
C3_JoinThenExactlyOneOnlineRow ==
  (IsEntry(lastCall) /\ lastCall.setSession)
  => /\ Len(OwnRows(lastCall.client)) = 1
     /\ OwnRows(lastCall.client)[1].is_online

C5_NoMatchSignalsDeleteFailed ==
  [][ \A c \in Clients : \A t \in tasks[c] :
        ( /\ t.kind = "delete" /\ t \notin tasks'[c] /\ lastCall'.kind = "delete"
          /\ \E i \in 1..Len(dbMessages) :
               /\ dbMessages[i].id = t.msgId
               /\ ~DeleteMatches(dbMessages[i], t.msgId, t.room.id, t.user.id) )
        => /\ Signalled(lastCall', "Delete failed")
           /\ dbMessages' = dbMessages
           /\ messages'[c] = messages[c] ]_vars

Trimmed(text) == text # <<>> /\ trim(text) = text

\* C6: a send whose text is empty after trimming issues no write, and every
\* stored message holds its trimmed text: no request in flight and no row of the
\* history has a text that is empty or differs from its trim.
C6_OnlyTrimmedTextStored ==
  /\ \A i \in 1..Len(dbMessages) : Trimmed(dbMessages[i].text)
  /\ \A c \in Clients : \A t \in tasks[c] : t.kind = "send" => Trimmed(t.text)

\* A padded text was stored trimmed and a blank send then returned at once.
C6_TrimmedStoredBlankIgnored ==
  /\ \E i \in 1..Len(dbMessages) :
       /\ dbMessages[i].text = << "y", "o" >>
       /\ dbMessages[i].user_id = currentUser["c1"].id
  /\ lastCall.kind = "send" /\ lastCall.pc = "noop"
  /\ Len(dbMessages) = 1

\* C7: a join whose room lookup failed or whose member write returned any error
\* leaves the session and the stored session unset and surfaces an error.
C7_FailedJoinLeavesSessionUnset ==
  (IsEntry(lastCall)
     /\ (lastCall.lookup = "fail" \/ lastCall.member \in {"error", "23505"}))
  => /\ Anonymous(lastCall.client)
     /\ storage[lastCall.client].room = NoRoom
     /\ storage[lastCall.client].user = NoUser
     /\ Errored(lastCall)

\* C8: a join under a name held in the room by another user is refused and sets
\* no session, and no two rows of a room with different users share a name.
C8_NamesUniquePerRoom ==
  /\ (IsEntry(lastCall) /\ lastCall.member = "23505")
       => Anonymous(lastCall.client) /\ Errored(lastCall)
  /\ \A i, j \in 1..Len(dbMembers) :
       (dbMembers[i].room_id = dbMembers[j].room_id
          /\ dbMembers[i].user_id # dbMembers[j].user_id)
       => dbMembers[i].display_name # dbMembers[j].display_name

\* C9: a createRoom or joinRoom call ends either with the session active and no
\* error, or with the session anonymous and an error; "Room created!" is shown
\* only with the session active, and never together with an error.
C9_SuccessOrErrorNeverBoth ==
  IsEntry(lastCall)
  => /\ \/ Active(lastCall.client) /\ ~Errored(lastCall)
        \/ Anonymous(lastCall.client) /\ Errored(lastCall)
     /\ Signalled(lastCall, "Room created!")
          => Active(lastCall.client) /\ ~Errored(lastCall)

\* C10: when leaveRoom returns, room and user are null, the members list, the
\* messages list and the typing set are empty, and no channel is live.
C10_LeaveClearsEverything ==
  [][ \A c \in Clients :
        ( /\ \E t \in tasks[c] : t.kind = "leave"
          /\ tasks'[c] = {} /\ lastCall'.kind = "leave" )
        => /\ currentRoom'[c] = NoRoom /\ currentUser'[c] = NoUser
           /\ members'[c] = <<>> /\ messages'[c] = <<>>
           /\ typingUsers'[c] = <<>>
           /\ sub'[c] = NoSub ]_vars


\* A step in which the page of client c is reloaded.
Reloads(c) == \E sent \in BOOLEAN : Reload(c, sent)

\* C11: when leaveRoom has returned, storage holds neither a room nor a user
\* entry, and a reload that follows finds the session anonymous.
C11_LeaveThenReloadIsAnonymous ==
  [][ \A c \in Clients :
        /\ (lastCall'.kind = "leave" /\ lastCall'.client = c)
             => storage'[c].room = NoRoom /\ storage'[c].user = NoUser
        /\ (lastCall.kind = "leave" /\ lastCall.client = c /\ Reloads(c))
             => currentRoom'[c] = NoRoom /\ currentUser'[c] = NoUser ]_vars

\* leaveRoom returned for a client that had joined and whose session was stored.
C11_LeftAfterStoredSession ==
  /\ lastCall.kind = "leave"
  /\ Anonymous(lastCall.client)
  /\ \E i \in 1..Len(dbMembers) : ~dbMembers[i].is_online

\* C12: a reload while the session is active leaves room and user as they were
\* and storage as it was, and adds no room_members row.
C12_ReloadResumesSession ==
  [][ \A c \in Clients :
        (Active(c) /\ Reloads(c))
        => /\ currentRoom'[c] = currentRoom[c]
           /\ currentUser'[c] = currentUser[c]
           /\ storage'[c] = storage[c]
           /\ storage'[c].room = currentRoom[c] /\ storage'[c].user = currentUser[c]
           /\ Len(dbMembers') = Len(dbMembers) ]_vars

\* The page was reloaded with an active session: the loads of the new page are
\* in flight and nothing of the old page is left.
C12_ReloadedWhileActive ==
  /\ Active("c1")
  /\ lastCall = NoCall
  /\ members["c1"] = <<>>
  /\ fetches["c1"] = { MsgFetch(currentRoom["c1"].id),
                       MemFetch(currentRoom["c1"].id, currentUser["c1"].id) }

\* Nothing of client c is in flight: no handler call, no notification, no load.
Settled(c) == tasks[c] = {} /\ inbox[c] = <<>> /\ fetches[c] = {}

\* C13: once nothing is in flight, and no request has failed or been answered
\* late, the local message list of an active client is the stored history of
\* its room, in creation order.
C13_SettledListIsHistory ==
  \A c \in Clients :
    (Active(c) /\ Settled(c) /\ upsets = 0)
    => messages[c] = SelectMessages(currentRoom[c].id)

\* A step in which client c takes a load request out of flight (its answer is
\* produced or stored), with no failure and no call or reload.
LoadStep(c) ==
  /\ fetches'[c] # fetches[c]
  /\ calls' = calls /\ upsets' = upsets /\ tasks' = tasks
  /\ sub'[c] = sub[c] /\ currentRoom'[c] = currentRoom[c]

HasId(list, id) == \E k \in 1..Len(list) : list[k].id = id

\* C18: a message that is in the local list and still in the backend is still in
\* the local list after the answer to a load is stored.
C18_SnapshotErasesNoMessage ==
  [][ \A c \in Clients : \A i \in 1..Len(messages[c]) :
        (Active(c) /\ LoadStep(c) /\ HasId(dbMessages, messages[c][i].id))
        => HasId(messages'[c], messages[c][i].id) ]_vars

\* C19: the local message list never holds two entries with the same id.
C19_NoDuplicateIds ==
  \A c \in Clients : \A i, j \in 1..Len(messages[c]) :
    messages[c][i].id = messages[c][j].id => i = j

\* C20: the answer to a load issued for a room is not stored once the session
\* is no longer in that room.
C20_StaleAnswerNotStored ==
  [][ \A c \in Clients : \A f \in fetches[c] :
        (f \notin fetches'[c] /\ calls' = calls /\ tasks' = tasks
           /\ f.room # currentRoom[c].id)
        => /\ members'[c] = members[c]
           /\ messages'[c] = messages[c]
           /\ typingUsers'[c] = typingUsers[c] ]_vars

\* The inputs of a join and what each is once upper-cased, letter by letter.
UpperCased ==
  { <<"aaa111", "AAA111">>, <<"AAA111", "AAA111">>,
    <<"bbb222", "BBB222">>, <<"BBB222", "BBB222">> }

\* C15: when the rooms select of a join is answered, a stored room whose code is
\* the upper-cased input is the room the join goes on with; when there is none,
\* the join returns with "Room not found" and the session is anonymous.
C15_LookupIgnoresCase ==
  [][ \A c \in Clients : \A t \in tasks[c] :
        (t.pc = "lookup" /\ t \notin tasks'[c] /\ calls' = calls /\ upsets' = upsets)
        => LET hits == { i \in 1..Len(dbRooms) :
                           <<t.code, dbRooms[i].code>> \in UpperCased }
           IN  IF hits # {}
                 THEN \E t2 \in tasks'[c] :
                        /\ t2.pc = "member"
                        /\ \E i \in hits : t2.room = dbRooms[i]
                 ELSE /\ lastCall'.client = c
                      /\ Toast(JoinErrorTitle, "Room not found") \in lastCall'.toasts
                      /\ currentRoom'[c] = NoRoom /\ currentUser'[c] = NoUser ]_vars

C15_LowerCaseInputFoundRoom ==
  /\ \E t \in tasks["c1"] :
        t.pc = "member" /\ t.code = "aaa111" /\ t.room.code = "AAA111"
  /\ lastCall.kind = "join"
  /\ Toast(JoinErrorTitle, "Room not found") \in lastCall.toasts

\* A step in which client c calls sendMessage, deleteMessage or updateTyping.
CallsRoomHandler(c) ==
  \/ \E text \in Texts : sendMessage(c, text)
  \/ \E id \in 1..MaxMsgs : deleteMessage(c, id)
  \/ \E isTyping \in BOOLEAN : updateTyping(c, isTyping)

\* C16: a call of sendMessage, deleteMessage or updateTyping while the room or
\* the user is unset returns at once: no request is issued and no local,
\* persisted or backend variable changes.
C16_NoSessionNoEffect ==
  [][ \A c \in Clients :
        (CallsRoomHandler(c) /\ (currentRoom[c] = NoRoom \/ currentUser[c] = NoUser))
        => /\ lastCall'.client = c /\ lastCall'.pc = "noop"
           /\ UNCHANGED << tasks, fetches, inbox, sub, storage, currentRoom,
                           currentUser, members, messages, typingUsers,
                           dbRooms, dbMembers, dbMessages, nextMsgId >> ]_vars

C16_TypingCalledWithoutSession ==
  /\ lastCall.kind = "typing" /\ lastCall.pc = "noop"
  /\ Anonymous(lastCall.client)
  /\ dbRooms # <<>>

\* C17: the local members list holds online rows only, in the order the rows
\* were inserted (ids are given in insertion order, as joined_at is).
C17_MembersOnlineInJoinOrder ==
  \A c \in Clients :
    /\ \A i \in 1..Len(members[c]) : members[c][i].is_online
    /\ \A i, j \in 1..Len(members[c]) :
         i < j => members[c][i].id < members[c][j].id


\* A step in which client c starts a call updateTyping(flag).
StartsTyping(c, flag) ==
  \E t \in tasks'[c] \ tasks[c] : t.kind = "typing" /\ t.flag = flag

C21_OneEntryTakesEffect ==
  [][ \A c \in Clients : \A t \in tasks[c] :
        (t.pc = "member" /\ t \notin tasks'[c] /\ calls' = calls /\ Active(c))
        => /\ dbMembers' = dbMembers
           /\ currentRoom'[c] = currentRoom[c]
           /\ currentUser'[c] = currentUser[c] ]_vars

\* C22: once leaveRoom has returned with its update answered, and until the
\* browser is in a room again, no member row goes from offline to online.
C22_OfflineStaysOffline ==
  [][ \A c \in Clients :
        (lastCall.kind = "leave" /\ lastCall.client = c /\ lastCall.member = "ok"
           /\ Anonymous(c))
        => \A i \in 1..Len(dbMembers) :
             ~dbMembers[i].is_online => ~dbMembers'[i].is_online ]_vars

\* C23: a heartbeat timer exists exactly when a room is current, and a
\* heartbeat update is issued for the current room and user only.
C23_HeartbeatWhileActive ==
  [][ \A c \in Clients :
        /\ HeartbeatTimer(c) <=> currentRoom[c] # NoRoom
        /\ \A t \in tasks'[c] \ tasks[c] :
             t.kind = "presence" => t.room = currentRoom[c] /\ t.user = currentUser[c]
     ]_vars

\* C24: in every state the two channels of a browser are those of its current
\* room (none when no room is current), and a notification waiting for its
\* callback is one of the current room.
C24_ChannelsFollowSession ==
  \A c \in Clients :
    /\ sub[c].room = currentRoom[c].id
    /\ Anonymous(c) => sub[c] = NoSub /\ inbox[c] = <<>>
    /\ \A i \in 1..Len(inbox[c]) :
         /\ currentRoom[c] # NoRoom
         /\ inbox[c][i].type # "member" => inbox[c][i].row.room_id = currentRoom[c].id

\* The browser left room 1 and is in room 2, with a notification waiting.
C24_SecondRoomNotified ==
  /\ currentRoom["c1"].id = 2 /\ sub["c1"].room = 2
  /\ inbox["c1"] # <<>>
  /\ \E i \in 1..Len(dbMembers) : dbMembers[i].room_id = 1

\* C25: when the answer to a members load (not an error) is stored and neither another
\* members load nor a notification is left, the local members list holds the
\* rows the backend now has for the room.
C25_LastAnswerIsCurrent ==
  [][ \A c \in Clients : \A f \in fetches[c] :
        ( /\ f.kind = "members" /\ f \notin fetches'[c] /\ members'[c] # members[c]
          /\ calls' = calls /\ tasks' = tasks /\ upsets' = upsets
          /\ Active(c) /\ f.room = currentRoom[c].id
          /\ inbox'[c] = <<>>
          /\ \A g \in fetches'[c] : g.kind = "messages" )
        => SeqToSet(members'[c]) = SeqToSet(SelectMembers(f.room)) ]_vars

\* C26: when the mark-offline update of leaveRoom fails, leaveRoom still returns
\* with room and user unset, the members list, the messages list and the typing
\* set empty and the stored session removed, and shows no error.
C26_FailedLeaveStillClears ==
  [][ \A c \in Clients : \A t \in tasks[c] :
        ( /\ t.kind = "leave" /\ t \notin tasks'[c] /\ calls' = calls
          /\ lastCall'.kind = "leave" /\ lastCall'.member = "error" )
        => /\ currentRoom'[c] = NoRoom /\ currentUser'[c] = NoUser
           /\ members'[c] = <<>> /\ messages'[c] = <<>>
           /\ typingUsers'[c] = <<>>
           /\ storage'[c].room = NoRoom /\ storage'[c].user = NoUser
           /\ lastCall'.toasts = {} ]_vars

\* The rows a name of the typing set may stand for: typing rows of the current
\* room that are not the local user's.
TypingOthers(c) ==
  { i \in 1..Len(dbMembers) :
      /\ dbMembers[i].room_id = currentRoom[c].id /\ dbMembers[i].is_typing
      /\ dbMembers[i].user_id # currentUser[c].id }

\* C27: with a session, no handler, load or notification left to run, and no
\* request failed or answered late, every name in the typing set is the display
\* name of a member row of the current room that is flagged is_typing and is not
\* the local user's row.
C27_TypingSetOfOthers ==
  \A c \in Clients :
    (Active(c) /\ Settled(c) /\ upsets = 0)
    => \A i \in 1..Len(typingUsers[c]) :
         \E j \in TypingOthers(c) : dbMembers[j].display_name = typingUsers[c][i]

\* C28: when the messages insert of sendMessage fails, the call shows an error
\* toast, and the local message list, the room, the user and the stored session
\* are as they were.
C28_FailedSendIsShown ==
  [][ \A c \in Clients : \A t \in tasks[c] :
        ( /\ t.kind = "send" /\ t.pc = "insert" /\ t \notin tasks'[c]
          /\ calls' = calls
          /\ lastCall'.kind = "send" /\ lastCall'.inserts = 0 )
        => /\ lastCall'.toasts # {}
           /\ messages'[c] = messages[c]
           /\ currentRoom'[c] = currentRoom[c] /\ currentUser'[c] = currentUser[c]
           /\ storage'[c] = storage[c] ]_vars

\* C29: when joinRoom picks the user id of its member row in a browser that has
\* written a member row before (every row so far being this browser's), the id
\* is the one of the rows it wrote before.
C29_JoinReusesUserId ==
  [][ \A c \in Clients : \A t \in tasks[c] : \A t2 \in tasks'[c] :
        ( /\ t.pc = "lookup" /\ t \notin tasks'[c] /\ t2.pc = "member"
          /\ dbMembers # <<>>
          /\ \A i \in 1..Len(dbMembers) : dbMembers[i].display_name # PeerName )
        => \E i \in 1..Len(dbMembers) : dbMembers[i].user_id = t2.user.id ]_vars

\* C30: while a session is current and its member row exists, the page can be
\* closed or reloaded with the mark-offline update of the unload handler reaching
\* the backend: the handler issues the update for the current room and user.
C30_ExitMarksOffline ==
  \A c \in Clients :
    ( /\ Active(c) /\ MemberMatches(currentRoom[c].id, currentUser[c].id)
      /\ calls < MaxCalls /\ CanNotify(currentRoom[c].id) )
    => ENABLED Reload(c, TRUE)

\* C31: a handler call repeats a backend request only in createRoom, after an
\* insertion refused by a uniqueness conflict: any other answer moves the call
\* on to its next request or ends it, a request that failed ends the call, and
\* createRoom returns with at most one insertion that was not a conflict.
C31_OnlyCodeConflictRetried ==
  [][ \A c \in Clients : \A t \in tasks[c] :
        t \notin tasks'[c]
        => /\ \A t2 \in tasks'[c] \ tasks[c] :
                \/ t2.pc # t.pc
                \/ /\ t.kind = "create" /\ t.pc = "insert"
                   /\ t2.conflicts = t.conflicts + 1 /\ upsets' = upsets
           /\ upsets' = upsets + 1 => tasks'[c] = tasks[c] \ {t}
           /\ (lastCall' # lastCall /\ lastCall'.kind = "create")
                => lastCall'.inserts <= lastCall'.conflicts + 1 ]_vars

\* A createRoom met a code conflict, inserted again, and returned with an error
\* right after an insertion that failed for another reason.
C31_ConflictRetriedFailureNot ==
  /\ lastCall.kind = "create" /\ lastCall.conflicts = 1 /\ lastCall.inserts = 2
  /\ lastCall.toasts # {} /\ upsets = 1

\* C32: whenever no handler call of a client is pending, its room is unset exactly
\* when its user is unset, and the stored room entry is absent exactly when the
\* stored user entry is absent.
C32_RoomAndUserTogether ==
  \A c \in Clients :
    tasks[c] = {}
    => /\ (currentRoom[c] = NoRoom) <=> (currentUser[c] = NoUser)
       /\ (storage[c].room = NoRoom) <=> (storage[c].user = NoUser)

\* A client that left a room has joined again: room, user and both stored entries
\* are set, after having been cleared by the leave.
C32_JoinedAgainAfterLeave ==
  /\ lastCall.kind = "join" /\ lastCall.client = "c1" /\ tasks["c1"] = {}
  /\ Active("c1")
  /\ storage["c1"].room = currentRoom["c1"] /\ storage["c1"].user = currentUser["c1"]
  /\ \E i \in 1..Len(dbMembers) : ~dbMembers[i].is_online

====
